---------------------------- MODULE Spec2Model ----------------------------
(***************************************************************************)
(* A model of pyqsp's command line (pyqsp/main.py, CommandLine) and of its *)
(* qulacs response circuit (pyqsp/qsp_models/qsp_circuit.py, QSPCircuit).  *)
(*                                                                         *)
(* Three specifications share the module:                                  *)
(*   Spec      one call of CommandLine, one action per command branch;     *)
(*   SpecCirc  a QSPCircuit object and the calls made on it;               *)
(*   SpecQx    the arithmetic eval_qx performs on one theta (l. 97-100).   *)
(*                                                                         *)
(* Numbers.  Python floats that are only passed around (phases, poly       *)
(* coefficients, thetas) are integers.  Floats that are computed with      *)
(* (scale, kappa, x, tolerance) are exact rationals [n |-> .., d |-> ..].  *)
(* Python values of different types are records with different fields:     *)
(* None, [ndarray |-> s], [list |-> s], [str |-> s].                       *)
(***************************************************************************)
EXTENDS Integers, Sequences, FiniteSets, TLC

VARIABLES
    \* ---- CommandLine (main.py) ----
    pc,             \* "idle": not called yet; "returned"; "exited" (sys.exit)
    args,           \* the argparse namespace of the call (NoArgs while idle)
    phiset,         \* the local variable phiset when the call ended
    generateCalls,  \* calls of <generator>.generate / ham_sim.ham_sim, in order
    solverCalls,    \* calls of angle_sequence.QuantumSignalProcessingPhases
    plotCalls,      \* calls of response.PlotQSPResponse
    callOrder,      \* the order in which these collaborators were called
    stdout,         \* what the call printed, in order
    ret,            \* the value CommandLine returned (None if it exited)
    \* ---- QSPCircuit (qsp_circuit.py) ----
    phis0,          \* the phis argument the object was constructed with
    phis,           \* self.phis
    gates,          \* the gate list of the qulacs.QuantumCircuit (self)
    call,           \* the last method call made on the object
    outcome,        \* how that call ended: a returned value or a raised error
    \* ---- eval_qx, one theta ----
    qx              \* inputs and results of lines 97-100 for one theta

clVars == <<pc, args, phiset, generateCalls, solverCalls, plotCalls, callOrder,
           stdout, ret>>
circVars == <<phis0, phis, gates, call, outcome>>
vars == <<pc, args, phiset, generateCalls, solverCalls, plotCalls, callOrder,
          stdout, ret, phis0, phis, gates, call, outcome, qx>>

-----------------------------------------------------------------------------
(* Bounds of the model *)

MaxLen == 2         \* longest coefficient list / phase sequence
MaxKappa == 3       \* --kappa ranges over 2..MaxKappa
MaxScaleNum == 3    \* scale factors are k/2 for k in 1..MaxScaleNum
MaxX == 2           \* sample points x = i/j, |i| <= MaxX
MaxXDen == 2        \*                        1 <= j <= MaxXDen
MaxPhase == 1       \* phases given to QSPCircuit are 0..MaxPhase
MaxTheta == 1       \* thetas are 0..MaxTheta
MaxThetas == 2      \* longest list of thetas of one call
MaxGates == 6       \* calls that would grow the gate list beyond are left out
MaxSin == 24        \* np.sin(theta) ranges over -MaxSin..MaxSin units of 2^-53

-----------------------------------------------------------------------------
(* Python values *)

None == [none |-> TRUE]
Text(s) == [text |-> s]             \* a str where None is possible too
\* keyword arguments of a call: passed with a value, or left out
Kw(v) == [passed |-> v]
NotPassed == [notpassed |-> TRUE]
NdArray(s) == [ndarray |-> s]
PyList(s) == [list |-> s]
PyStr(s) == [str |-> s]             \* "1,0" is PyStr(<<"1", "0">>)

\* bool(v) for the values `not v` is applied to
Truthy(v) ==
    CASE v = None -> FALSE
      [] "list" \in DOMAIN v -> v.list # <<>>
      [] "str" \in DOMAIN v -> v.str # <<>>
      [] OTHER -> TRUE

\* rationals
Rat(n, d) == [n |-> n, d |-> d]
RInt(i) == Rat(i, 1)
RAdd(a, b) == Rat(a.n * b.d + b.n * a.d, a.d * b.d)
RSub(a, b) == Rat(a.n * b.d - b.n * a.d, a.d * b.d)
RMul(a, b) == Rat(a.n * b.n, a.d * b.d)
RDiv(a, b) == Rat(a.n * b.d, a.d * b.n)
REq(a, b) == a.n * b.d = b.n * a.d
\* np.sign
RSign(a) ==
    LET p == a.n * a.d
    IN  RInt(IF p > 0 THEN 1 ELSE IF p < 0 THEN 0 - 1 ELSE 0)

\* A ramp a, a+1, .. of length n: sequences whose entries differ by position
Ramp(n, a) == [k \in 1..n |-> a + k - 1]

-----------------------------------------------------------------------------
(* argparse: the namespace CommandLine works on *)

NoArgs == [none |-> TRUE]

\* the argparse defaults
DefaultArgs ==
    [cmd |-> "", signal_operator |-> "Wx",
     plot |-> FALSE, hide_plot |-> FALSE, return_angles |-> FALSE,
     poly |-> None, tau |-> RInt(100), delta |-> RInt(3), kappa |-> RInt(3),
     degree |-> 3, epsilon |-> Rat(3, 10),
     seqname |-> None, seqargs |-> None, polyname |-> None, polyargs |-> None,
     plot_magnitude |-> FALSE, plot_real_only |-> FALSE, output_json |-> FALSE,
     plot_positive_only |-> FALSE, plot_tight_y |-> FALSE, plot_npts |-> 100,
     tolerance |-> Rat(1, 10)]

Tolerances == {Rat(1, 10), Rat(1, 100)}
SignalOperators == {"Wx", "Wz"}
Kappas == {RInt(k) : k \in 2..MaxKappa}

\* The options every command reads: the caller's choices on top of the defaults
CommonArgs ==
    { [DefaultArgs EXCEPT !.signal_operator = so, !.plot = p, !.hide_plot = h,
                          !.return_angles = r, !.output_json = j,
                          !.plot_magnitude = m, !.tolerance = t] :
        so \in SignalOperators, p \in BOOLEAN, h \in BOOLEAN, r \in BOOLEAN,
        j \in BOOLEAN, m \in BOOLEAN, t \in Tolerances }

\* float_list, and line 193: split at the commas and convert each piece
Float(tok) ==
    CASE tok = "-1" -> 0 - 1
      [] tok = "0" -> 0
      [] tok = "1" -> 1
      [] tok = "2" -> 2
float_list(s) == PyList([k \in 1..Len(s.str) |-> Float(s.str[k])])

\* values of --poly: absent, a parsed list, or (args given by a caller) a string
CoefLists == {PyList(Ramp(n, a)) : n \in 1..MaxLen, a \in {0 - 1, 0}}
PolyValues ==
    {None, PyStr(<<>>)} \cup CoefLists
        \cup {PyStr([k \in 1..n |-> IF k = 1 THEN "-1" ELSE "2"]) : n \in 1..MaxLen}

\* plot_args, lines 178-184
plot_args(a) ==
    [plot_magnitude |-> a.plot_magnitude,
     plot_positive_only |-> a.plot_positive_only,
     plot_real_only |-> a.plot_real_only,
     plot_tight_y |-> a.plot_tight_y,
     npts |-> a.plot_npts,
     show |-> ~a.hide_plot]

-----------------------------------------------------------------------------
(* The collaborators CommandLine calls.  Their code is not part of the    *)
(* sources at hand; they are modelled by what the specification says of   *)
(* them: a solver returns one phase per coefficient (degree + 1), a       *)
(* generator returns a coefficient list and a positive scale.             *)

PhaseStarts == {0, 3}
Scales == {Rat(k, 2) : k \in 1..MaxScaleNum}

\* angle_sequence.QuantumSignalProcessingPhases(coefs, ...)
SolverResults(coefs) ==
    LET c == IF "list" \in DOMAIN coefs THEN coefs.list ELSE coefs.ndarray
    IN  {NdArray(Ramp(Len(c), a)) : a \in PhaseStarts}

\* <PolynomialGenerator>.generate(...): the coefficients
GeneratedCoefs == {NdArray(Ramp(n, a)) : n \in 1..MaxLen, a \in {0, 1}}

\* ham_sim.ham_sim(tau, ...) and <PhaseGenerator>.generate(...): the phases
GeneratedPhases == {NdArray(Ramp(n, a)) : n \in 1..MaxLen, a \in PhaseStarts}

\* response.PlotQSPResponse(phiset, ...): the phase array the caller holds
\* once the plotter has returned; the plotter only reads it
PlotQSPResponse(phi) == phi

\* the registries pyqsp.poly.polynomial_generators, pyqsp.phases.phase_generators
polynomial_generators == {"poly_sign", "gibbs"}
phase_generators == {"fpsearch", "erf_step"}

-----------------------------------------------------------------------------
(* What CommandLine hands to its collaborators *)

SolverCall(coefs, so, tol, res) ==
    [coefs |-> coefs, signal_operator |-> so, tolerance |-> tol, result |-> res]

GenerateCall(fn, as, res) == [fn |-> fn, args |-> as, result |-> res]

PlotCall(phi, pcoefs, target, so, title, a) ==
    [phiset |-> phi, pcoefs |-> pcoefs, target |-> target,
     signal_operator |-> so, title |-> title, plot_args |-> plot_args(a)]

\* the lambdas passed as target=; each closes over scale (and args.kappa)
Target(fn, scale, kappa) == [fn |-> fn, scale |-> scale, kappa |-> kappa]

\* lambda x: scale * 1/x                                (lines 219, 293)
target_invert(scale, x) == RDiv(RMul(scale, RInt(1)), x)

\* lambda x: scale * np.sign(x)                         (line 236)
target_sign(scale, x) == RMul(scale, RSign(x))

\* lambda x: scale * (np.sign(x + 0.5) - np.sign(x - 0.5)) / 2    (lines 253-254)
target_thresh(scale, x) ==
    RDiv(RMul(scale, RSub(RSign(RAdd(x, Rat(1, 2))), RSign(RSub(x, Rat(1, 2))))),
         RInt(2))

\* lambda x: scale * 1 - (np.sign(x + 1/args.kappa) -
\*                        np.sign(x - 1/args.kappa)) / 2          (lines 272-274)
target_rect(scale, kappa, x) ==
    RSub(RMul(scale, RInt(1)),
         RDiv(RSub(RSign(RAdd(x, RDiv(RInt(1), kappa))),
                   RSign(RSub(x, RDiv(RInt(1), kappa)))),
              RInt(2)))

\* calling the target the plotter was given
TargetApply(t, x) ==
    CASE t.fn \in {"invert", "invert_rect"} -> target_invert(t.scale, x)
      [] t.fn = "poly_sign" -> target_sign(t.scale, x)
      [] t.fn = "poly_thresh" -> target_thresh(t.scale, x)
      [] t.fn = "poly_rect" -> target_rect(t.scale, t.kappa, x)

-----------------------------------------------------------------------------
(* Lines 333-340: what is returned and printed once the command is done *)

tolist(a) == PyList(a.ndarray)
json_dumps(l) == [json_array |-> l.list]

\* Output with the --return-angles test left out
Output_no_return(a, phi) ==
    IF phi # None /\ a.output_json
    THEN [ret |-> None,
          out |-> <<[what |-> "json_header", signal_operator |-> a.signal_operator],
                    [what |-> "json", text |-> json_dumps(tolist(phi))]>>,
          phiset |-> tolist(phi)]
    ELSE [ret |-> None, out |-> <<>>, phiset |-> phi]

\* Output with the JSON printed before the --return-angles test
Output_json_first(a, phi) ==
    IF phi # None
    THEN [ret |-> IF a.return_angles THEN phi ELSE None,
          out |-> IF a.output_json
                  THEN <<[what |-> "json_header",
                          signal_operator |-> a.signal_operator],
                         [what |-> "json", text |-> json_dumps(tolist(phi))]>>
                  ELSE <<>>,
          phiset |-> phi]
    ELSE [ret |-> None, out |-> <<>>, phiset |-> phi]

Output(a, phi) ==
    IF phi # None
    THEN IF a.return_angles
         THEN [ret |-> phi, out |-> <<>>, phiset |-> phi]
         ELSE IF a.output_json
              THEN [ret |-> None,
                    out |-> <<[what |-> "json_header",
                               signal_operator |-> a.signal_operator],
                              [what |-> "json", text |-> json_dumps(tolist(phi))]>>,
                    phiset |-> tolist(phi)]
              ELSE [ret |-> None, out |-> <<>>, phiset |-> phi]
    ELSE [ret |-> None, out |-> <<>>, phiset |-> phi]

\* The call runs to the end of the function
\* In every branch the generator is called first, then the solver, then the
\* plotter
CallOrder(gen, sol, plt) ==
    [i \in DOMAIN gen |-> "generate"] \o [i \in DOMAIN sol |-> "solve"]
        \o [i \in DOMAIN plt |-> "plot"]

Return(a, phi, gen, sol, plt, printed) ==
    LET after == IF plt # <<>> THEN PlotQSPResponse(phi) ELSE phi
        o == Output(a, after)
    IN  /\ pc' = "returned"
        /\ args' = a
        /\ phiset' = o.phiset
        /\ generateCalls' = gen
        /\ solverCalls' = sol
        /\ plotCalls' = plt
        /\ callOrder' = CallOrder(gen, sol, plt)
        /\ stdout' = printed \o o.out
        /\ ret' = o.ret
        /\ UNCHANGED <<circVars, qx>>

\* An early `return` (lines 302, 306, 319, 323): phiset is still None
EarlyReturn(a, printed) ==
    /\ pc' = "returned"
    /\ args' = a
    /\ phiset' = None
    /\ generateCalls' = <<>>
    /\ solverCalls' = <<>>
    /\ plotCalls' = <<>>
    /\ callOrder' = <<>>
    /\ stdout' = printed
    /\ ret' = None
    /\ UNCHANGED <<circVars, qx>>

\* sys.exit(0), line 191
Exit(a, printed) ==
    /\ pc' = "exited"
    /\ args' = a
    /\ phiset' = None
    /\ generateCalls' = <<>>
    /\ solverCalls' = <<>>
    /\ plotCalls' = <<>>
    /\ callOrder' = <<>>
    /\ stdout' = printed
    /\ ret' = [SystemExit |-> 0]
    /\ UNCHANGED <<circVars, qx>>

\* the plotter called whether or not --plot is given
IfPlot_always(a, plotcall) == <<plotcall>>

\* `if args.plot:` around a PlotQSPResponse call
IfPlot(a, plotcall) == IF a.plot THEN <<plotcall>> ELSE <<>>

-----------------------------------------------------------------------------
(* CommandLine: one action per branch of the dispatch on args.cmd.  Each  *)
(* action is the whole call, from the dispatch to the return.             *)

ListArgs == {None, PyList(<<2, 1>>)}      \* --polyargs / --seqargs
PolyNames == {None} \cup {Text(n) : n \in {"nosuch"} \cup polynomial_generators}
SeqNames == {None} \cup {Text(n) : n \in {"nosuch"} \cup phase_generators}
UnknownCmds == {"", "plot", "poly2angle"}

\* the test of line 299 without its registry lookup
PolyNameRejected_none_only(a) == a.polyname = None

\* `not args.polyname or args.polyname not in polynomial_generators`, line 299
PolyNameRejected(a) ==
    a.polyname = None \/ a.polyname.text \notin polynomial_generators

\* `not args.seqname or args.seqname not in phase_generators`, line 316
SeqNameRejected(a) ==
    a.seqname = None \/ a.seqname.text \notin phase_generators

\* lines 186-199
Cmd_poly2angles ==
    /\ pc = "idle"
    /\ \E a0 \in CommonArgs, pv \in PolyValues :
         LET a == [a0 EXCEPT !.cmd = "poly2angles", !.poly = pv]
         IN  IF ~Truthy(a.poly)
             THEN Exit(a, <<[what |-> "poly_required"]>>)
             ELSE LET coefs == IF "str" \in DOMAIN a.poly
                               THEN float_list(a.poly) ELSE a.poly
                  IN  \E res \in SolverResults(coefs) :
                        Return(a, res, <<>>,
                               <<SolverCall(coefs, Kw(a.signal_operator), NotPassed, res)>>,
                               IfPlot(a, PlotCall(res, Kw(coefs), NotPassed,
                                                  a.signal_operator, NotPassed, a)),
                               <<[what |-> "coefs", v |-> coefs]>>)

\* lines 201-204
Cmd_hamsim ==
    /\ pc = "idle"
    /\ \E a0 \in CommonArgs, res \in GeneratedPhases :
         LET a == [a0 EXCEPT !.cmd = "hamsim"]
         IN  Return(a, res,
                    <<GenerateCall("ham_sim", <<a.tau>>, res)>>,
                    <<>>,
                    IfPlot(a, PlotCall(res, NotPassed, NotPassed, "Wz", NotPassed, a)),
                    <<>>)

\* The five named-target commands share their shape: generate, solve, plot
NamedTarget(a, fn, genargs, title) ==
    \E pcoefs \in GeneratedCoefs, scale \in Scales :
      \E res \in SolverResults(pcoefs) :
        Return(a, res,
               <<GenerateCall(fn, genargs, <<pcoefs, scale>>)>>,
               <<SolverCall(pcoefs, NotPassed, Kw(a.tolerance), res)>>,
               IfPlot(a, PlotCall(res, NotPassed, Kw(Target(a.cmd, scale, a.kappa)),
                                  "Wx", Kw(title), a)),
               <<>>)

\* lines 206-222
Cmd_invert ==
    /\ pc = "idle"
    /\ \E a0 \in CommonArgs, k \in Kappas :
         LET a == [a0 EXCEPT !.cmd = "invert", !.kappa = k]
         IN  NamedTarget(a, "PolyOneOverX", <<a.kappa, a.epsilon>>, "Inversion")

\* lines 224-239
Cmd_poly_sign ==
    /\ pc = "idle"
    /\ \E a0 \in CommonArgs :
         LET a == [a0 EXCEPT !.cmd = "poly_sign"]
         IN  NamedTarget(a, "PolySign", <<a.degree, a.delta>>, "Sign Function")

\* lines 241-257
Cmd_poly_thresh ==
    /\ pc = "idle"
    /\ \E a0 \in CommonArgs :
         LET a == [a0 EXCEPT !.cmd = "poly_thresh"]
         IN  NamedTarget(a, "PolyThreshold", <<a.degree, a.delta>>,
                         "Threshold Function")

\* lines 259-277
Cmd_poly_rect ==
    /\ pc = "idle"
    /\ \E a0 \in CommonArgs, k \in Kappas :
         LET a == [a0 EXCEPT !.cmd = "poly_rect", !.kappa = k]
         IN  NamedTarget(a, "PolyRect", <<a.degree, a.delta, a.kappa>>,
                         "Rect Function")

\* lines 279-296
Cmd_invert_rect ==
    /\ pc = "idle"
    /\ \E a0 \in CommonArgs, k \in Kappas :
         LET a == [a0 EXCEPT !.cmd = "invert_rect", !.kappa = k]
         IN  NamedTarget(a, "PolyOneOverXRect",
                         <<a.degree, a.delta, a.kappa, a.epsilon>>,
                         "Poly Rect * 1/x")

\* lines 298-313
Cmd_poly ==
    /\ pc = "idle"
    /\ \E a0 \in CommonArgs, nm \in PolyNames, pa \in ListArgs :
         LET a == [a0 EXCEPT !.cmd = "poly", !.polyname = nm, !.polyargs = pa]
         IN  IF PolyNameRejected(a)
             THEN EarlyReturn(a, <<[what |-> "known_generators",
                                    names |-> polynomial_generators]>>)
             ELSE IF ~Truthy(a.polyargs)
             THEN EarlyReturn(a, <<[what |-> "generator_help", gen |-> a.polyname.text]>>)
             ELSE \E pcoefs \in GeneratedCoefs :
                    \E res \in SolverResults(pcoefs) :
                      Return(a, res,
                             <<GenerateCall(a.polyname.text, a.polyargs.list, pcoefs)>>,
                             <<SolverCall(pcoefs, NotPassed, Kw(a.tolerance), res)>>,
                             IfPlot(a, PlotCall(res, Kw(pcoefs), NotPassed, "Wx",
                                                NotPassed, a)),
                             <<[what |-> "coefs", v |-> pcoefs]>>)

\* lines 315-327
Cmd_angles ==
    /\ pc = "idle"
    /\ \E a0 \in CommonArgs, nm \in SeqNames, sa \in ListArgs :
         LET a == [a0 EXCEPT !.cmd = "angles", !.seqname = nm, !.seqargs = sa]
         IN  IF SeqNameRejected(a)
             THEN EarlyReturn(a, <<[what |-> "known_generators",
                                    names |-> phase_generators]>>)
             ELSE IF ~Truthy(a.seqargs)
             THEN EarlyReturn(a, <<[what |-> "generator_help", gen |-> a.seqname.text]>>)
             ELSE \E res \in GeneratedPhases :
                    Return(a, res,
                           <<GenerateCall(a.seqname.text, a.seqargs.list, res)>>,
                           <<>>,
                           IfPlot(a, PlotCall(res, NotPassed, NotPassed, "Wx",
                                              NotPassed, a)),
                           <<[what |-> "phiset", v |-> res]>>)

\* lines 329-331, then 333: phiset is None
Cmd_unknown ==
    /\ pc = "idle"
    /\ \E a0 \in CommonArgs, c \in UnknownCmds :
         LET a == [a0 EXCEPT !.cmd = c]
         IN  Return(a, None, <<>>, <<>>, <<>>,
                    <<[what |-> "unknown_command", cmd |-> a.cmd],
                      [what |-> "help_text"]>>)

\* The state before CommandLine is called
InitCL ==
    /\ pc = "idle"
    /\ args = NoArgs
    /\ phiset = None
    /\ generateCalls = <<>>
    /\ solverCalls = <<>>
    /\ plotCalls = <<>>
    /\ callOrder = <<>>
    /\ stdout = <<>>
    /\ ret = None

-----------------------------------------------------------------------------
(* QSPCircuit (qsp_circuit.py): a qulacs.QuantumCircuit on one qubit.  The *)
(* inherited add_RZ_gate / add_RX_gate append a gate to the circuit.       *)

NoCall == [none |-> TRUE]
Returned(v) == [returned |-> v]
Raised(e) == [raised |-> e]

RZ(angle) == [gate |-> "RZ", angle |-> angle]
RX(angle) == [gate |-> "RX", angle |-> angle]

\* __init__, line 19: self.phis = np.array(phis).flatten() * 2
init_phis(p) == [k \in 1..Len(p) |-> p[k] * 2]

\* the loop of build_qsp_sequence, lines 24-26, over the phases still to add
RECURSIVE add_layers(_, _, _)
add_layers(g, rest, theta) ==
    IF rest = <<>>
    THEN g
    ELSE add_layers(g \o <<RX(theta), RZ(Head(rest))>>, Tail(rest), theta)

\* build_qsp_sequence with the loop running over all of self.phis
build_qsp_sequence_all(g, ph, theta) ==
    add_layers(g \o <<RZ(ph[1])>>, ph, theta)

\* build_qsp_sequence, lines 22-26: the gate list after the call (phis not empty)
build_qsp_sequence(g, ph, theta) ==
    add_layers(g \o <<RZ(ph[1])>>, Tail(ph), theta)

\* build_qsp_sequence has no return statement: the value of a call is None
build_qsp_sequence_value == None

PhaseInputs ==
    UNION {[1..n -> 0..MaxPhase] : n \in 0..MaxLen}
Thetas == 0..MaxTheta
ThetaLists == UNION {[1..n -> Thetas] : n \in 0..MaxThetas}

\* the object after QSPCircuit(phis)
InitCirc ==
    /\ phis0 \in PhaseInputs
    /\ phis = init_phis(phis0)
    /\ gates = <<>>
    /\ call = NoCall
    /\ outcome = Returned(None)

CircIdle ==
    /\ phis0 = <<>>
    /\ phis = <<>>
    /\ gates = <<>>
    /\ call = NoCall
    /\ outcome = Returned(None)

CanGrow == Len(gates) + 2 * Len(phis) - 1 <= MaxGates

\* a direct call of build_qsp_sequence(theta)
BuildQspSequence ==
    /\ \E theta \in Thetas :
         IF phis = <<>>
         THEN /\ gates' = gates                       \* self.phis[0]: IndexError
              /\ call' = [op |-> "build_qsp_sequence", thetas |-> <<theta>>,
                          added |-> 0]
              /\ outcome' = Raised("IndexError")
         ELSE /\ CanGrow
              /\ gates' = build_qsp_sequence(gates, phis, theta)
              /\ call' = [op |-> "build_qsp_sequence", thetas |-> <<theta>>,
                          added |-> Len(gates') - Len(gates)]
              /\ outcome' = Returned(build_qsp_sequence_value)
    /\ UNCHANGED <<phis0, phis, clVars, qx>>

\* The loop of eval_px (lines 61-68) and of eval_qx (lines 91-101).  With no
\* thetas the empty array is returned.  Otherwise the first pass builds the
\* sequence for theta * 2 on self, binds circ to the value of that call, and
\* calls circ.update_quantum_state(state): circ is None, so the call raises
\* AttributeError and the method ends there.
EvalLoop(op, thetas) ==
    IF thetas = <<>>
    THEN /\ gates' = gates
         /\ call' = [op |-> op, thetas |-> thetas, added |-> 0]
         /\ outcome' = Returned(NdArray(<<>>))
    ELSE IF phis = <<>>
    THEN /\ gates' = gates                            \* self.phis[0]: IndexError
         /\ call' = [op |-> op, thetas |-> thetas, added |-> 0]
         /\ outcome' = Raised("IndexError")
    ELSE /\ CanGrow
         /\ gates' = build_qsp_sequence(gates, phis, thetas[1] * 2)
         /\ call' = [op |-> op, thetas |-> thetas,
                     added |-> Len(gates') - Len(gates)]
         /\ LET circ == build_qsp_sequence_value
            IN  outcome' = IF circ = None
                           THEN Raised("AttributeError")
                           ELSE Returned(circ)

\* lines 48-68
EvalPx ==
    /\ \E thetas \in ThetaLists : EvalLoop("eval_px", thetas)
    /\ UNCHANGED <<phis0, phis, clVars, qx>>

\* lines 78-101
EvalQx ==
    /\ \E thetas \in ThetaLists : EvalLoop("eval_qx", thetas)
    /\ UNCHANGED <<phis0, phis, clVars, qx>>

\* lines 70-72 and 74-76: np.real / np.imag of eval_px(thetas)
EvalRealPx ==
    /\ \E thetas \in ThetaLists : EvalLoop("eval_real_px", thetas)
    /\ UNCHANGED <<phis0, phis, clVars, qx>>
EvalImagPx ==
    /\ \E thetas \in ThetaLists : EvalLoop("eval_imag_px", thetas)
    /\ UNCHANGED <<phis0, phis, clVars, qx>>

\* lines 32-46: eval_px(thetas) is evaluated first; with no thetas the sum of
\* the empty arrays is the empty array
QspResponse ==
    /\ \E thetas \in ThetaLists : EvalLoop("qsp_response", thetas)
    /\ UNCHANGED <<phis0, phis, clVars, qx>>

\* lines 28-30
Svg ==
    /\ call' = [op |-> "svg", thetas |-> <<>>, added |-> 0]
    /\ outcome' = Returned(None)
    /\ UNCHANGED <<phis0, phis, gates, clVars, qx>>

-----------------------------------------------------------------------------
(* eval_qx, lines 97-100, for one theta: the denominator and the division. *)
(* sin(theta) is an integer number of units of 2^-53 (about 1.1e-16, half  *)
(* the machine epsilon of a double); the amplitude is re + i*im.           *)

Subst == 90071993          \* 1.0e-8 in units of 2^-53

SinValues == (0 - MaxSin)..MaxSin
Amplitudes == {[re |-> r, im |-> i] : r \in {0, 1}, i \in {0 - 1, 0, 1}}

\* lines 97-99
qx_denom(sin) == IF sin = 0 THEN Subst ELSE sin

\* line 100: amplitude / (1j * denom) = (im - i*re) / denom
qx_divide(amp, denom) == [re |-> Rat(amp.im, denom), im |-> Rat(0 - amp.re, denom)]

QxIdle == qx = [pc |-> "idle"]

InitQxInputs ==
    qx \in {[pc |-> "line97", sin |-> s, amp |-> a] : s \in SinValues, a \in Amplitudes}

QxDivide ==
    /\ qx.pc = "line97"
    /\ LET denom == qx_denom(qx.sin)
       IN  qx' = [pc |-> "line100", sin |-> qx.sin, amp |-> qx.amp,
                  denom |-> denom, q |-> qx_divide(qx.amp, denom)]
    /\ UNCHANGED <<clVars, circVars>>

-----------------------------------------------------------------------------
(* The specifications *)

Init == InitCL /\ CircIdle /\ QxIdle

Next ==
    \/ Cmd_poly2angles
    \/ Cmd_hamsim
    \/ Cmd_invert
    \/ Cmd_poly_sign
    \/ Cmd_poly_thresh
    \/ Cmd_poly_rect
    \/ Cmd_invert_rect
    \/ Cmd_poly
    \/ Cmd_angles
    \/ Cmd_unknown

Spec == Init /\ [][Next]_vars

InitC == InitCL /\ InitCirc /\ QxIdle

NextCirc ==
    \/ BuildQspSequence
    \/ EvalPx
    \/ EvalQx
    \/ EvalRealPx
    \/ EvalImagPx
    \/ QspResponse
    \/ Svg

SpecCirc == InitC /\ [][NextCirc]_vars

InitQx == InitCL /\ CircIdle /\ InitQxInputs

NextQx == QxDivide

SpecQx == InitQx /\ [][NextQx]_vars

-----------------------------------------------------------------------------
(* Properties of CommandLine, checked under Spec *)

\* the phase sequence the solver, ham_sim or the phase generator handed back
Produced ==
    IF solverCalls # <<>>
    THEN solverCalls[Len(solverCalls)].result
    ELSE generateCalls[Len(generateCalls)].result

JsonPrinted == \E i \in DOMAIN stdout : stdout[i].what \in {"json_header", "json"}

\* C1: for poly2angles with --poly, hamsim, invert, and poly with a known
\* --polyname and non-empty --polyargs, a call with --return-angles returns
\* exactly the phase sequence the solver or generator produced, and that
\* sequence is not empty.
C1_ReturnAngles ==
    (/\ pc # "idle"
     /\ args.return_angles
     /\ \/ args.cmd = "poly2angles" /\ args.poly \notin {None, PyStr(<<>>), PyList(<<>>)}
        \/ args.cmd \in {"hamsim", "invert"}
        \/ /\ args.cmd = "poly"
           /\ args.polyname # None
           /\ args.polyname.text \in polynomial_generators
           /\ args.polyargs \notin {None, PyList(<<>>)})
    => /\ pc = "returned"
       /\ Len(solverCalls) + Len(generateCalls) >= 1
       /\ ret = Produced
       /\ "ndarray" \in DOMAIN ret
       /\ Len(ret.ndarray) >= 1

C1_Witness ==
    /\ pc = "returned"
    /\ args.cmd = "poly"
    /\ args.return_angles
    /\ args.output_json
    /\ Len(solverCalls) = 1
    /\ ret = solverCalls[1].result
    /\ Len(ret.ndarray) = MaxLen

\* C5: every solver call CommandLine makes is given the caller's --tolerance
\* as an explicit parameter.
C5_ToleranceHandedOver ==
    pc # "idle" => \A i \in DOMAIN solverCalls :
                     solverCalls[i].tolerance = Kw(args.tolerance)

\* C6: the caller's --signal_operator is the one the phases are solved with
\* and the one the response is plotted with, and the JSON header names the
\* signal operator that was used.
C6_SignalOperatorUsed ==
    pc # "idle" =>
      /\ \A i \in DOMAIN solverCalls :
           solverCalls[i].signal_operator \in {NotPassed, Kw(args.signal_operator)}
      /\ \A i \in DOMAIN plotCalls :
           /\ plotCalls[i].signal_operator = args.signal_operator
           /\ \A j \in DOMAIN stdout :
                stdout[j].what = "json_header"
                  => stdout[j].signal_operator = plotCalls[i].signal_operator

\* C8 as stated: once a phase sequence is produced, --return-angles returns it
\* and prints no JSON; --output-json without --return-angles prints it as a
\* flat JSON array and returns None; neither flag returns None and prints no
\* JSON.  With no phase sequence CommandLine returns None and prints no JSON.
Routing ==
    /\ (phiset # None /\ args.return_angles)
         => pc = "returned" /\ ret = Produced /\ ~JsonPrinted
    /\ (phiset # None /\ ~args.return_angles /\ args.output_json)
         => /\ pc = "returned"
            /\ ret = None
            /\ stdout[Len(stdout)] =
                 [what |-> "json", text |-> [json_array |-> Produced.ndarray]]
    /\ (phiset # None /\ ~args.return_angles /\ ~args.output_json)
         => pc = "returned" /\ ret = None /\ ~JsonPrinted

C8_Original ==
    pc # "idle" =>
      /\ Routing
      /\ phiset = None => pc = "returned" /\ ret = None /\ ~JsonPrinted

\* C8, amended: as stated, except that with no phase sequence CommandLine
\* either returns None or, for poly2angles without --poly, exits with
\* status 0; in both cases no JSON is printed.
C8_OutputRouting ==
    pc # "idle" =>
      /\ Routing
      /\ phiset = None =>
           /\ ~JsonPrinted
           /\ \/ pc = "returned" /\ ret = None
              \/ /\ pc = "exited"
                 /\ ret = [SystemExit |-> 0]
                 /\ args.cmd = "poly2angles"
                 /\ args.poly \in {None, PyStr(<<>>), PyList(<<>>)}

C8_Witness ==
    /\ pc = "returned"
    /\ args.cmd = "invert"
    /\ args.output_json
    /\ ~args.return_angles
    /\ ret = None
    /\ JsonPrinted
    /\ Len(Produced.ndarray) = MaxLen

\* the ideal target functions of the named-target commands
Ideal(fn, kappa, x) ==
    CASE fn \in {"invert", "invert_rect"} -> RDiv(RInt(1), x)
      [] fn = "poly_sign" -> RSign(x)
      [] fn = "poly_thresh" ->
           RDiv(RSub(RSign(RAdd(x, Rat(1, 2))), RSign(RSub(x, Rat(1, 2)))), RInt(2))
      [] fn = "poly_rect" ->
           RSub(RInt(1),
                RDiv(RSub(RSign(RAdd(x, RDiv(RInt(1), kappa))),
                          RSign(RSub(x, RDiv(RInt(1), kappa)))),
                     RInt(2)))

XGrid == {Rat(i, j) : i \in (0 - MaxX)..MaxX, j \in 1..MaxXDen}

\* C9: in invert, poly_sign, poly_thresh, poly_rect and invert_rect the target
\* handed to the plotter is scale times the whole ideal target function, at
\* every x (x # 0 for 1/x) and for every scale.
C9_TargetIsScaledIdeal ==
    \A i \in DOMAIN plotCalls :
      plotCalls[i].target # NotPassed =>
        LET t == plotCalls[i].target.passed
        IN  \A x \in XGrid :
              (t.fn \in {"invert", "invert_rect"} => x.n # 0)
                => REq(TargetApply(t, x), RMul(t.scale, Ideal(t.fn, t.kappa, x)))

\* C10: a request that cannot be served reaches no generate, no solver and no
\* plotter and yields no phase sequence: an unknown command prints the help
\* and returns None; poly / angles with a missing or unregistered name print
\* the registry's names and return None; with a registered name but no
\* arguments they print the generator's help and return None; poly2angles
\* without --poly prints a message and exits with status 0.
KnownCmds ==
    {"poly2angles", "hamsim", "invert", "poly_sign", "poly_thresh", "poly_rect",
     "invert_rect", "poly", "angles"}

NoName(name, registry) == name = None \/ name.text \notin registry
NoList(l) == l \in {None, PyList(<<>>)}

C10_Unservable ==
    pc # "idle" =>
      /\ args.cmd \notin KnownCmds
           => /\ pc = "returned" /\ ret = None
              /\ stdout = <<[what |-> "unknown_command", cmd |-> args.cmd],
                            [what |-> "help_text"]>>
      /\ (args.cmd = "poly" /\ NoName(args.polyname, polynomial_generators))
           => /\ pc = "returned" /\ ret = None
              /\ stdout = <<[what |-> "known_generators",
                             names |-> polynomial_generators]>>
      /\ (args.cmd = "angles" /\ NoName(args.seqname, phase_generators))
           => /\ pc = "returned" /\ ret = None
              /\ stdout = <<[what |-> "known_generators", names |-> phase_generators]>>
      /\ (/\ args.cmd = "poly"
          /\ ~NoName(args.polyname, polynomial_generators)
          /\ NoList(args.polyargs))
           => /\ pc = "returned" /\ ret = None
              /\ stdout = <<[what |-> "generator_help", gen |-> args.polyname.text]>>
      /\ (/\ args.cmd = "angles"
          /\ ~NoName(args.seqname, phase_generators)
          /\ NoList(args.seqargs))
           => /\ pc = "returned" /\ ret = None
              /\ stdout = <<[what |-> "generator_help", gen |-> args.seqname.text]>>
      /\ (args.cmd = "poly2angles" /\ args.poly \in {None, PyStr(<<>>), PyList(<<>>)})
           => /\ pc = "exited" /\ ret = [SystemExit |-> 0]
              /\ stdout = <<[what |-> "poly_required"]>>
      /\ (\/ args.cmd \notin KnownCmds
          \/ args.cmd = "poly" /\ NoName(args.polyname, polynomial_generators)
          \/ args.cmd = "poly" /\ NoList(args.polyargs)
          \/ args.cmd = "angles" /\ NoName(args.seqname, phase_generators)
          \/ args.cmd = "angles" /\ NoList(args.seqargs)
          \/ args.cmd = "poly2angles"
               /\ args.poly \in {None, PyStr(<<>>), PyList(<<>>)})
           => /\ generateCalls = <<>>
              /\ solverCalls = <<>>
              /\ plotCalls = <<>>
              /\ phiset = None

C10_Witness ==
    /\ pc = "returned"
    /\ args.cmd = "poly"
    /\ args.polyname = Text("nosuch")
    /\ args.polyargs # None
    /\ args.plot
    /\ args.return_angles
    /\ ret = None
    /\ generateCalls = <<>>

\* C11: plotting never influences the result.  The plotter is called at most
\* once, only when --plot is given, only after the phase sequence has been
\* produced, and with that phase sequence; what CommandLine returns (or that
\* it exits) is decided by the command, its inputs and --return-angles alone,
\* so it is the same with and without --plot, --hide-plot and the other plot
\* options; and of the plotter's arguments --hide-plot decides show alone,
\* which is false exactly when it is given.
C11_PlottingIsPassive ==
    pc # "idle" =>
      /\ Len(plotCalls) <= 1
      /\ plotCalls # <<>> =>
           /\ args.plot
           /\ phiset # None
           /\ plotCalls[1].phiset = Produced
           /\ Len(callOrder) >= 2
           /\ callOrder[Len(callOrder)] = "plot"
           /\ callOrder[Len(callOrder) - 1] =
                IF solverCalls # <<>> THEN "solve" ELSE "generate"
           /\ plotCalls[1].plot_args =
                [plot_magnitude |-> args.plot_magnitude,
                 plot_positive_only |-> args.plot_positive_only,
                 plot_real_only |-> args.plot_real_only,
                 plot_tight_y |-> args.plot_tight_y,
                 npts |-> args.plot_npts,
                 show |-> ~args.hide_plot]
      /\ \A i \in DOMAIN callOrder : callOrder[i] = "plot" => i = Len(callOrder)
      /\ pc = "exited"
           <=> (args.cmd = "poly2angles"
                  /\ args.poly \in {None, PyStr(<<>>), PyList(<<>>)})
      /\ pc = "returned" =>
           ret = IF Len(solverCalls) + Len(generateCalls) >= 1 /\ args.return_angles
                 THEN Produced
                 ELSE None

C11_Witness ==
    /\ pc = "returned"
    /\ args.cmd = "poly2angles"
    /\ args.plot
    /\ args.hide_plot
    /\ args.plot_magnitude
    /\ args.return_angles
    /\ Len(plotCalls) = 1
    /\ plotCalls[1].plot_args.show = FALSE
    /\ plotCalls[1].phiset = ret
    /\ Len(ret.ndarray) = MaxLen
    /\ callOrder = <<"solve", "plot">>

-----------------------------------------------------------------------------
(* Properties of QSPCircuit, checked under SpecCirc *)

EvalOps == {"eval_px", "eval_qx", "eval_real_px", "eval_imag_px", "qsp_response"}

\* an evaluation that reached its first theta on a circuit of d+1 >= 1 phases
Evaluated == call # NoCall /\ call.op \in EvalOps /\ call.thetas # <<>> /\ phis0 # <<>>

\* C2: for a circuit built from d+1 phases and evaluated at theta, the gates
\* built for that evaluation are RZ(2*phase_0), then for k = 1..d RX(2*theta)
\* followed by RZ(2*phase_k): d+1 tunable and d signal rotations, alternating,
\* the phases in index order, each once.
C2_GateSequence ==
    Evaluated =>
      LET n == 2 * Len(phis0) - 1
          theta == call.thetas[1]
          built == SubSeq(gates, Len(gates) - call.added + 1, Len(gates))
      IN  /\ call.added = n
          /\ Len(built) = n
          /\ \A i \in 1..n :
               built[i] = IF i % 2 = 1
                          THEN [gate |-> "RZ", angle |-> 2 * phis0[(i + 1) \div 2]]
                          ELSE [gate |-> "RX", angle |-> 2 * theta]

C2_Witness ==
    /\ Evaluated
    /\ call.op = "eval_px"
    /\ Len(phis0) = MaxLen
    /\ phis0[1] # phis0[MaxLen]
    /\ call.thetas[1] = MaxTheta
    /\ Len(gates) > call.added

\* C3: evaluation has no hidden state: whatever was called before, the gates
\* applied for a theta are only the 2*len(phis)-1 gates of its own sequence;
\* the gate list does not grow from one evaluation to the next.
C3_NoHiddenState ==
    (call # NoCall /\ call.added > 0) => Len(gates) = 2 * Len(phis) - 1

\* C4: for any list of thetas eval_px and eval_qx complete without error and
\* return an array with one entry per theta.
C4_EvalCompletes ==
    (call # NoCall /\ call.op \in {"eval_px", "eval_qx"} /\ phis0 # <<>>)
      => /\ "returned" \in DOMAIN outcome
         /\ Len(outcome.returned.ndarray) = Len(call.thetas)

-----------------------------------------------------------------------------
(* Property of the eval_qx arithmetic, checked under SpecQx *)

Abs(i) == IF i < 0 THEN 0 - i ELSE i

\* within machine precision of zero: at most the double epsilon 2^-52, which
\* is two units of 2^-53
NearZero(sin) == Abs(sin) <= 2

=============================================================================
